---- MODULE Spec2Model ----
(***************************************************************************)
(* Batch execution engine of nymo-art-v4.                                  *)
(*                                                                         *)
(*   backend/core/batch_processor.py   BatchProcessor (scheduler, retry)   *)
(*   backend/core/modules/image_generation_workflow.py                     *)
(*                                     BatchImageGenerationWorkflow        *)
(*   backend/app/routes/batch.py       active_batches registry, routes     *)
(*                                                                         *)
(* One asyncio event loop runs everything: a step of the model is the code *)
(* a coroutine executes between two suspension points (await of the        *)
(* engine, asyncio.sleep, asyncio.gather).                                 *)
(***************************************************************************)
EXTENDS Integers, Sequences, FiniteSets, TLC

\* ---- bounds of the model ------------------------------------------------
MaxJobs == 2
MaxConc == 2
MaxRetry == 1
\* the wave scenario: number of jobs and concurrency limit
ScenarioJobs == 7
ScenarioConc == 3

\* ---- program constants --------------------------------------------------
RouteMaxConcurrent == 10
RouteRetryAttempts == 2
DefaultMaxConcurrent == 10
DefaultRetryAttempts == 2

\* cells of the prompt column: one that is blank once stripped, one that is not
Cells == {" ", "cat"}
NoBatch == [status |-> "absent"]
NoSummary == [total_jobs |-> -1]

VARIABLES
    via,                       \* "library": BatchProcessor used directly; "route": through routes/batch.py
    max_concurrent_requests,   \* BatchConfig.max_concurrent_requests
    retry_attempts,            \* BatchConfig.retry_attempts
    use_enhanced_naming,       \* BatchProcessor.use_enhanced_naming
    engine_kind,               \* "async": generate suspends (ImageGenerationEngine contract);
                               \* "sync": generate never yields (the Leonardo engines of the routes)
    progress_callback_kind,    \* BatchConfig.progress_callback: "none", "sink" (returns
                               \* normally) or "faulty" (may raise)
    current_progress_callback, \* BatchProcessor.current_progress_callback, same values
    jobs,                      \* BatchProcessor.jobs: sequence of BatchJob
    completed_jobs,            \* BatchProcessor.completed_jobs: sequence of positions in jobs
    failed_jobs,               \* BatchProcessor.failed_jobs
    tasks,                     \* per job: the _process_single_job coroutine of the current run
    pc,                        \* process_batch: "idle", "gather", "downloads"
    wave_start,                \* loop variable i of process_batch
    total_jobs,                \* local total_jobs of process_batch
    last_result,               \* how the last process_batch call ended
    summary,                   \* the summary it returned
    notified,                  \* invocations of the progress callback in this run: the job,
                               \* the completed count passed, and whether it raised
    active_batches,            \* the registry entry of the batch (routes/batch.py)
    bg_started,                \* process_batch_async has started
    cancel_requested,          \* cancel_batch has succeeded
    pending_at_cancel          \* positions of the jobs that were 'pending' when it did

vars == <<via, max_concurrent_requests, retry_attempts, use_enhanced_naming, engine_kind,
          progress_callback_kind, current_progress_callback, jobs, completed_jobs, failed_jobs, tasks, pc, wave_start,
          total_jobs, last_result, summary, notified, active_batches, bg_started,
          cancel_requested, pending_at_cancel>>

config == <<via, max_concurrent_requests, retry_attempts, use_enhanced_naming, engine_kind,
            progress_callback_kind>>
cancel_vars == <<cancel_requested, pending_at_cancel>>

\* ---- helpers --------------------------------------------------------------
Min(a, b) == IF a < b THEN a ELSE b

RECURSIVE Pow2(_)
Pow2(n) == IF n = 0 THEN 1 ELSE 2 * Pow2(n - 1)

Positions == 1..Len(jobs)
Terminal == {"completed", "failed"}

RECURSIVE Count(_, _)
Count(s, x) == IF s = <<>> THEN 0 ELSE (IF Head(s) = x THEN 1 ELSE 0) + Count(Tail(s), x)

\* BatchJob as load_csv constructs it
BatchJob(id, prompt) ==
    [id |-> id, prompt |-> prompt, status |-> "pending", generation_id |-> FALSE,
     image_urls |-> "empty", error |-> "none"]

\* a _process_single_job coroutine that has not been created in this run;
\*   attempt: the loop variable;  wait: the backoff it sleeps;  calls: engine.generate
\*   calls made;  hist: how each iteration of the loop went ("ok", or what raised);
\*   updates: writes of a terminal status ('completed'/'failed') to the job
IdleTask == [pc |-> "idle", attempt |-> 0, wait |-> 0, calls |-> 0, hist |-> <<>>, updates |-> 0]

\* a slice one job too long
WaveTooWide(i) == {j \in 1..Len(jobs) : i < j /\ j <= i + max_concurrent_requests + 1}

\* the jobs of the wave that starts at offset i: self.jobs[i:i + max_concurrent_requests]
Wave(i) == {j \in Positions : i < j /\ j <= i + max_concurrent_requests}

\* BatchProcessor.get_status
get_status ==
    [total_jobs |-> Len(jobs),
     pending |-> Cardinality({j \in Positions : jobs[j].status = "pending"}),
     processing |-> Cardinality({j \in Positions : jobs[j].status = "processing"}),
     completed |-> Len(completed_jobs),
     failed |-> Len(failed_jobs)]

\* ---- the part of the state a job's coroutine writes -------------------------
World ==
    [jobs |-> jobs, tasks |-> tasks, completed_jobs |-> completed_jobs,
     failed_jobs |-> failed_jobs, notified |-> notified, active_batches |-> active_batches]

Apply(w) ==
    /\ jobs' = w.jobs
    /\ tasks' = w.tasks
    /\ completed_jobs' = w.completed_jobs
    /\ failed_jobs' = w.failed_jobs
    /\ notified' = w.notified
    /\ active_batches' = w.active_batches

\* what a callback of the current kind may do when invoked
RaiseChoices == IF current_progress_callback = "faulty" THEN BOOLEAN ELSE {FALSE}

\* the callback body: progress_callback of process_batch_async updates the registry
progress_callback(w, j, completed) ==
    [w EXCEPT !.notified = Append(@, [job |-> j, completed |-> completed, raised |-> FALSE]),
              !.active_batches = IF @ = NoBatch THEN @ ELSE [@ EXCEPT !.completed = completed]]

\* "if self.current_progress_callback: ... self.current_progress_callback(total_completed, ...)";
\* an invocation that raises has received its arguments too
Notify(w, j, raises) ==
    LET total_completed == Len(w.completed_jobs) + Len(w.failed_jobs)
    IN  IF current_progress_callback = "none"
        THEN w
        ELSE IF raises
             THEN [w EXCEPT !.notified =
                       Append(@, [job |-> j, completed |-> total_completed, raised |-> TRUE])]
             ELSE progress_callback(w, j, total_completed)

\* an except clause that takes the attempt after the last for the final one
HandleExceptionLate(w, j, err, cbRaises) ==
    IF w.tasks[j].attempt = retry_attempts + 1
    THEN LET w1 == [w EXCEPT !.jobs[j].status = "failed",
                             !.jobs[j].error = err,
                             !.failed_jobs = Append(@, j),
                             !.tasks[j].updates = @ + 1]
         IN  [Notify(w1, j, cbRaises) EXCEPT !.tasks[j].pc = "done"]
    ELSE [w EXCEPT !.tasks[j].pc = "backoff",
                   !.tasks[j].wait = Pow2(w.tasks[j].attempt)]

\* an except clause that sleeps 2 ** (attempt + 1)
HandleExceptionNextPower(w, j, err, cbRaises) ==
    IF w.tasks[j].attempt = retry_attempts
    THEN LET w1 == [w EXCEPT !.jobs[j].status = "failed",
                             !.jobs[j].error = err,
                             !.failed_jobs = Append(@, j),
                             !.tasks[j].updates = @ + 1]
         IN  [Notify(w1, j, cbRaises) EXCEPT !.tasks[j].pc = "done"]
    ELSE [w EXCEPT !.tasks[j].pc = "backoff",
                   !.tasks[j].wait = Pow2(w.tasks[j].attempt + 1)]

\* the except clause of _process_single_job; cbRaises: the callback raises in it
HandleException(w, j, err, cbRaises) ==
    IF w.tasks[j].attempt = retry_attempts
    THEN LET w1 == [w EXCEPT !.jobs[j].status = "failed",
                             !.jobs[j].error = err,
                             !.failed_jobs = Append(@, j),
                             !.tasks[j].updates = @ + 1]
         IN  [Notify(w1, j, cbRaises) EXCEPT !.tasks[j].pc = "done"]
    ELSE [w EXCEPT !.tasks[j].pc = "backoff",
                   !.tasks[j].wait = Pow2(w.tasks[j].attempt)]

\* the tail of the try block: the job is written, appended to completed_jobs, and
\* the callback is invoked (r1: it raises here; r2: it raises in the except clause)
RecordResult(w, j, st, gid, urls, r1, r2) ==
    LET w1 == [w EXCEPT !.jobs[j].generation_id = gid,
                        !.jobs[j].image_urls = urls,
                        !.jobs[j].status = st,
                        !.completed_jobs = Append(@, j),
                        !.tasks[j].updates = @ + 1]
    IN  IF current_progress_callback # "none" /\ r1
        THEN HandleException(Notify(w1, j, TRUE), j, "callback", r2)
        ELSE [Notify(w1, j, FALSE) EXCEPT !.tasks[j].pc = "done"]

\* outcomes of an awaited generation: the engine returns and the images are saved
\* ("ok"), the engine raises ("engine"), or writing an image raises after some of
\* the images were written ("save")
GenOutcomes == {"ok", "engine", "save"}

\* BatchImageGenerationWorkflow.process_single_job: it catches every exception
\* and returns a result dict whose status is "failed"
process_single_job(o) ==
    IF o = "ok"
    THEN [status |-> "completed", generation_id |-> TRUE, image_paths |-> "full"]
    ELSE [status |-> "failed", generation_id |-> FALSE, image_paths |-> "empty"]

\* the code of an attempt after "await self.engine.generate(request)" resumes
ResolveGenerate(w, j, o, r1, r2) ==
    LET wh == [w EXCEPT !.tasks[j].hist = Append(@, o)]
    IN  IF use_enhanced_naming
        THEN CASE o = "ok" -> RecordResult(wh, j, "completed", TRUE, "full", r1, r2)
               [] o = "engine" -> HandleException(wh, j, "engine", r2)
               [] OTHER ->
                    HandleException([wh EXCEPT !.jobs[j].image_urls = "partial"], j, "save", r2)
        ELSE LET job_result == process_single_job(o)
             IN  RecordResult(wh, j, job_result.status, job_result.generation_id,
                              job_result.image_paths, r1, r2)

\* one iteration of "for attempt in range(retry_attempts + 1)" up to its first
\* suspension; setupRaises: building the request or the job structure raises
BeginAttempt(w, j, setupRaises, o, r1, r2) ==
    IF setupRaises
    THEN HandleException([w EXCEPT !.tasks[j].hist = Append(@, "setup")], j, "setup", r2)
    ELSE LET wc == [w EXCEPT !.tasks[j].calls = @ + 1]
         IN  IF engine_kind = "sync"
             THEN ResolveGenerate(wc, j, o, r1, r2)
             ELSE [wc EXCEPT !.tasks[j].pc = "generating"]

\* _process_batch_concurrent: one task per job of the wave
LaunchWave(ts, i) ==
    [j \in DOMAIN ts |-> IF j \in Wave(i) THEN [IdleTask EXCEPT !.pc = "created"] ELSE ts[j]]

\* row['prompt'].strip().strip('"')
Strip(cell) == IF cell = " " THEN "" ELSE cell

\* the CSV files (and prompt lists) the model feeds in: rows of the prompt column
Rows == UNION {[1..n -> Cells] : n \in 1..MaxJobs}

\* BatchProcessor.load_csv: the jobs it appends for the rows of a file
load_csv(rows) ==
    LET kept == SelectSeq([i \in 1..Len(rows) |-> i], LAMBDA i : Strip(rows[i]) # "")
    IN  [k \in 1..Len(kept) |-> BatchJob(kept[k], Strip(rows[kept[k]]))]

\* the summary dict of process_batch
Summary ==
    [total_jobs |-> total_jobs,
     completed |-> Len(completed_jobs),
     failed |-> Len(failed_jobs),
     failed_jobs |-> [k \in 1..Len(failed_jobs) |->
                        [id |-> jobs[failed_jobs[k]].id,
                         prompt |-> jobs[failed_jobs[k]].prompt,
                         error |-> jobs[failed_jobs[k]].error]]]

\* ---- initial state ----------------------------------------------------------
\* the processor as constructed, with a configuration whose callback is one of kinds
InitWith(kinds) ==
    /\ via \in {"library", "route"}
    /\ IF via = "library"
       THEN /\ max_concurrent_requests \in 1..MaxConc
            /\ retry_attempts \in 0..MaxRetry
            /\ use_enhanced_naming \in BOOLEAN
            /\ engine_kind = "async"
            /\ progress_callback_kind \in kinds
       ELSE /\ max_concurrent_requests = DefaultMaxConcurrent
            /\ retry_attempts = DefaultRetryAttempts
            /\ use_enhanced_naming = TRUE
            /\ engine_kind = "sync"
            /\ progress_callback_kind = "none"
    /\ current_progress_callback = "none"
    /\ jobs = <<>>
    /\ completed_jobs = <<>>
    /\ failed_jobs = <<>>
    /\ tasks = <<>>
    /\ pc = "idle"
    /\ wave_start = 0
    /\ total_jobs = 0
    /\ last_result = "none"
    /\ summary = NoSummary
    /\ notified = <<>>
    /\ active_batches = NoBatch
    /\ bg_started = FALSE
    /\ cancel_requested = FALSE
    /\ pending_at_cancel = {}

\* ---- BatchProcessor operations ------------------------------------------------
\* load_csv(csv_path) called on the processor between runs
LoadCsv(rows) ==
    /\ via = "library"
    /\ pc = "idle"
    /\ Len(jobs) + Len(rows) <= MaxJobs
    /\ jobs' = jobs \o load_csv(rows)
    /\ tasks' = tasks \o [k \in 1..Len(load_csv(rows)) |-> IdleTask]
    /\ UNCHANGED <<config, current_progress_callback, completed_jobs, failed_jobs, pc,
                   wave_start, total_jobs, last_result, summary, notified,
                   active_batches, bg_started, cancel_vars>>

\* a process_batch without the "if not self.jobs" check
BeginRunNoCheck(cb) ==
    /\ summary' = NoSummary
    /\ last_result' = "running"
    /\ completed_jobs' = <<>>
    /\ failed_jobs' = <<>>
    /\ total_jobs' = Len(jobs)
    /\ current_progress_callback' = cb
    /\ wave_start' = 0
    /\ tasks' = LaunchWave([j \in Positions |-> IdleTask], 0)
    /\ notified' = <<>>
    /\ pc' = "gather"
    /\ UNCHANGED <<config, jobs, cancel_vars>>

\* process_batch from its entry to its first suspension (the gather of wave 1)
BeginRun(cb) ==
    /\ summary' = NoSummary
    /\ IF jobs = <<>>
       THEN /\ last_result' = "no_jobs"
            /\ UNCHANGED <<current_progress_callback, completed_jobs, failed_jobs, tasks, pc,
                           wave_start, total_jobs, notified>>
       ELSE /\ last_result' = "running"
            /\ completed_jobs' = <<>>
            /\ failed_jobs' = <<>>
            /\ total_jobs' = Len(jobs)
            /\ current_progress_callback' = cb
            /\ wave_start' = 0
            /\ tasks' = LaunchWave([j \in Positions |-> IdleTask], 0)
            /\ notified' = <<>>
            /\ pc' = "gather"
    /\ UNCHANGED <<config, jobs, cancel_vars>>

\* process_batch(generation_params) called on the processor
ProcessBatch ==
    /\ via = "library"
    /\ pc = "idle"
    /\ BeginRun(progress_callback_kind)
    /\ UNCHANGED <<active_batches, bg_started>>

\* a created task runs for the first time
TaskStart(j) ==
    /\ tasks[j].pc = "created"
    /\ \E setupRaises \in BOOLEAN, o \in GenOutcomes, r1 \in RaiseChoices, r2 \in RaiseChoices :
          Apply(BeginAttempt([World EXCEPT !.jobs[j].status = "processing"],
                             j, setupRaises, o, r1, r2))
    /\ UNCHANGED <<config, current_progress_callback, pc, wave_start, total_jobs,
                   last_result, summary, bg_started, cancel_vars>>

\* "await self.engine.generate(request)" resumes
GenerateReturn(j) ==
    /\ tasks[j].pc = "generating"
    /\ \E o \in GenOutcomes, r1 \in RaiseChoices, r2 \in RaiseChoices :
          Apply(ResolveGenerate(World, j, o, r1, r2))
    /\ UNCHANGED <<config, current_progress_callback, pc, wave_start, total_jobs,
                   last_result, summary, bg_started, cancel_vars>>

\* "await asyncio.sleep(2 ** attempt)" resumes and the loop takes its next iteration
BackoffDone(j) ==
    /\ tasks[j].pc = "backoff"
    /\ \E setupRaises \in BOOLEAN, o \in GenOutcomes, r1 \in RaiseChoices, r2 \in RaiseChoices :
          Apply(BeginAttempt([World EXCEPT !.tasks[j].attempt = @ + 1, !.tasks[j].wait = 0],
                             j, setupRaises, o, r1, r2))
    /\ UNCHANGED <<config, current_progress_callback, pc, wave_start, total_jobs,
                   last_result, summary, bg_started, cancel_vars>>

\* a scheduler that does not wait for the tasks of the wave
GatherDoneNoWait ==
    /\ pc = "gather"
    /\ pc' = "downloads"
    /\ UNCHANGED <<config, current_progress_callback, jobs, completed_jobs, failed_jobs, tasks,
                   wave_start, total_jobs, last_result, summary, notified,
                   active_batches, bg_started, cancel_vars>>

\* asyncio.gather(*tasks, return_exceptions=True) resumes; _wait_for_downloads sleeps
GatherDone ==
    /\ pc = "gather"
    /\ \A j \in Wave(wave_start) : tasks[j].pc = "done"
    /\ pc' = "downloads"
    /\ UNCHANGED <<config, current_progress_callback, jobs, completed_jobs, failed_jobs, tasks,
                   wave_start, total_jobs, last_result, summary, notified,
                   active_batches, bg_started, cancel_vars>>

\* the loop of process_batch takes its next wave
NextWave ==
    /\ pc = "downloads"
    /\ wave_start + max_concurrent_requests < total_jobs
    /\ wave_start' = wave_start + max_concurrent_requests
    /\ tasks' = LaunchWave(tasks, wave_start + max_concurrent_requests)
    /\ pc' = "gather"
    /\ UNCHANGED <<config, current_progress_callback, jobs, completed_jobs, failed_jobs,
                   total_jobs, last_result, summary, notified, active_batches,
                   bg_started, cancel_vars>>

\* a process_batch that builds and saves its summary after any wave
FinishEarly(saveRaises) ==
    /\ pc = "downloads"
    /\ pc' = "idle"
    /\ IF saveRaises
       THEN /\ last_result' = "save_error"
            /\ summary' = NoSummary
            /\ active_batches' = IF active_batches = NoBatch THEN active_batches
                                 ELSE [active_batches EXCEPT !.status = "failed"]
       ELSE /\ last_result' = "summary"
            /\ summary' = Summary
            /\ active_batches' = IF active_batches = NoBatch THEN active_batches
                                 ELSE [active_batches EXCEPT !.status = "completed",
                                                             !.completed = Summary.completed,
                                                             !.failed = Summary.failed]
    /\ UNCHANGED <<config, current_progress_callback, jobs, completed_jobs, failed_jobs, tasks,
                   wave_start, total_jobs, notified, bg_started, cancel_vars>>

\* after the last wave: the summary is built and saved, and process_batch returns
\* to process_batch_async (when run through the route), which updates the registry
Finish(saveRaises) ==
    /\ pc = "downloads"
    /\ wave_start + max_concurrent_requests >= total_jobs
    /\ pc' = "idle"
    /\ IF saveRaises
       THEN /\ last_result' = "save_error"
            /\ summary' = NoSummary
            /\ active_batches' = IF active_batches = NoBatch THEN active_batches
                                 ELSE [active_batches EXCEPT !.status = "failed"]
       ELSE /\ last_result' = "summary"
            /\ summary' = Summary
            /\ active_batches' = IF active_batches = NoBatch THEN active_batches
                                 ELSE [active_batches EXCEPT !.status = "completed",
                                                             !.completed = Summary.completed,
                                                             !.failed = Summary.failed]
    /\ UNCHANGED <<config, current_progress_callback, jobs, completed_jobs, failed_jobs, tasks,
                   wave_start, total_jobs, notified, bg_started, cancel_vars>>

\* ---- routes/batch.py ------------------------------------------------------------
\* the "prompts" lists of a request: items {"id": ..., "prompt": ...}, with ids
\* that may or may not be the row numbers
Requests == UNION {[1..n -> [id : 1..(MaxJobs + 1), prompt : Cells]] : n \in 1..MaxJobs}

\* the rows of the temporary CSV: "writer.writerow([item['prompt']])"
PromptColumn(prompts) == [k \in 1..Len(prompts) |-> prompts[k].prompt]

\* POST /batch/start
start_batch_processing(prompts) ==
    /\ via = "route"
    /\ active_batches = NoBatch
    /\ max_concurrent_requests' = Min(RouteMaxConcurrent, Len(prompts))
    /\ retry_attempts' = RouteRetryAttempts
    /\ jobs' = load_csv(PromptColumn(prompts))
    /\ tasks' = [k \in 1..Len(load_csv(PromptColumn(prompts))) |-> IdleTask]
    /\ active_batches' = [status |-> "starting", total_jobs |-> Len(prompts),
                          completed |-> 0, failed |-> 0]
    /\ UNCHANGED <<via, use_enhanced_naming, engine_kind, progress_callback_kind,
                   current_progress_callback,
                   completed_jobs, failed_jobs, pc, wave_start, total_jobs, last_result,
                   summary, notified, bg_started, cancel_vars>>

\* the background task, from its entry to the first suspension of process_batch
process_batch_async ==
    /\ via = "route"
    /\ active_batches # NoBatch
    /\ ~bg_started
    /\ bg_started' = TRUE
    /\ BeginRun("sink")
    /\ active_batches' = [active_batches EXCEPT
                            !.status = IF jobs = <<>> THEN "failed" ELSE "processing"]

\* DELETE /batch/{batch_id}
cancel_batch ==
    /\ active_batches # NoBatch
    /\ active_batches.status \notin {"completed", "failed", "cancelled"}
    /\ active_batches' = [active_batches EXCEPT !.status = "cancelled"]
    /\ cancel_requested' = TRUE
    /\ pending_at_cancel' = {j \in Positions : jobs[j].status = "pending"}
    /\ UNCHANGED <<config, current_progress_callback, jobs, completed_jobs, failed_jobs, tasks,
                   pc, wave_start, total_jobs, last_result, summary, notified,
                   bg_started>>

Next ==
    \/ \E rows \in Rows : LoadCsv(rows)
    \/ ProcessBatch
    \/ \E j \in Positions : TaskStart(j)
    \/ \E j \in Positions : GenerateReturn(j)
    \/ \E j \in Positions : BackoffDone(j)
    \/ GatherDone
    \/ NextWave
    \/ \E saveRaises \in BOOLEAN : Finish(saveRaises)
    \/ \E prompts \in Requests : start_batch_processing(prompts)
    \/ process_batch_async
    \/ cancel_batch

\* any progress callback
Init == InitWith({"none", "sink", "faulty"})
Spec == Init /\ [][Next]_vars

\* progress callbacks that return normally
InitSink == InitWith({"none", "sink"})
SpecSink == InitSink /\ [][Next]_vars

\* the event loop runs every coroutine that is ready: a created task, a sleep that
\* has elapsed, a gather whose tasks are done; and every engine call returns
Fairness ==
    /\ WF_vars(\E j \in Positions : TaskStart(j))
    /\ WF_vars(\E j \in Positions : GenerateReturn(j))
    /\ WF_vars(\E j \in Positions : BackoffDone(j))
    /\ WF_vars(GatherDone)
    /\ WF_vars(NextWave)
    /\ WF_vars(\E saveRaises \in BOOLEAN : Finish(saveRaises))
    /\ WF_vars(process_batch_async)
SpecFair == InitSink /\ [][Next]_vars /\ Fairness

\* one run over a loaded list: load_csv has read ScenarioJobs prompts into a processor
\* built with max_concurrent_requests = ScenarioConc, retry_attempts = 0 (no backoff
\* can occur) and a progress callback that returns normally; process_batch is
\* called once
InitScenario ==
    /\ via = "library"
    /\ max_concurrent_requests = ScenarioConc
    /\ retry_attempts = 0
    /\ use_enhanced_naming \in BOOLEAN
    /\ engine_kind = "async"
    /\ progress_callback_kind = "sink"
    /\ current_progress_callback = "none"
    /\ jobs = load_csv([i \in 1..ScenarioJobs |-> "cat"])
    /\ completed_jobs = <<>>
    /\ failed_jobs = <<>>
    /\ tasks = [i \in 1..ScenarioJobs |-> IdleTask]
    /\ pc = "idle"
    /\ wave_start = 0
    /\ total_jobs = 0
    /\ last_result = "none"
    /\ summary = NoSummary
    /\ notified = <<>>
    /\ active_batches = NoBatch
    /\ bg_started = FALSE
    /\ cancel_requested = FALSE
    /\ pending_at_cancel = {}

NextScenario ==
    \/ last_result = "none" /\ ProcessBatch
    \/ \E j \in Positions : TaskStart(j)
    \/ \E j \in Positions : GenerateReturn(j)
    \/ GatherDone
    \/ NextWave
    \/ \E saveRaises \in BOOLEAN : Finish(saveRaises)

SpecScenario == InitScenario /\ [][NextScenario]_vars

\* one batch through the route with more prompts than RouteMaxConcurrent: the
\* request, its background task and the coroutines of the run
RoutePrompts == 11
RouteRequest == [k \in 1..RoutePrompts |-> [id |-> k, prompt |-> "cat"]]

\* the event loop runs its ready callbacks in FIFO order: the first steps of the
\* tasks of a wave in the order gather created them, then the sleeps as they
\* elapse (the shorter sleep of an earlier attempt first, then the task that went
\* to sleep first)
Turn(j) ==
    /\ j \in Wave(wave_start)
    /\ tasks[j].pc \in {"created", "backoff"}
    /\ \A i \in Wave(wave_start) \ {j} :
          /\ tasks[j].pc = "backoff" => tasks[i].pc # "created"
          /\ (tasks[i].pc = tasks[j].pc /\ tasks[i].attempt = tasks[j].attempt) => j < i
          /\ (tasks[i].pc = "backoff" /\ tasks[j].pc = "backoff")
                => tasks[j].attempt <= tasks[i].attempt

\* what the generation service does with a prompt: it accepts it, at the first
\* attempt or after one transient failure, or it rejects it and the engine raises
\* at every attempt
ServiceOutcome(j) ==
    \A k \in 1..Len(tasks[j].hist) :
        \/ tasks[j].hist[k] = "engine"
        \/ tasks[j].hist[k] = "ok" /\ k <= 2

InitRoute == InitSink /\ via = "route"

NextRoute ==
    \/ start_batch_processing(RouteRequest)
    \/ process_batch_async
    \/ \E j \in Positions : Turn(j) /\ TaskStart(j) /\ ServiceOutcome(j)'
    \/ \E j \in Positions : Turn(j) /\ BackoffDone(j) /\ ServiceOutcome(j)'
    \/ GatherDone
    \/ NextWave
    \/ \E saveRaises \in BOOLEAN : Finish(saveRaises)

SpecRoute == InitRoute /\ [][NextRoute]_vars

TypeOK ==
    /\ pc \in {"idle", "gather", "downloads"}
    /\ Len(tasks) = Len(jobs)
    /\ \A j \in Positions : jobs[j].status \in {"pending", "processing", "completed", "failed"}

\* ---- properties -----------------------------------------------------------------
Processing == {j \in Positions : jobs[j].status = "processing"}

\* every iteration of the retry loop of job j raised
AllFailed(j) ==
    /\ tasks[j].hist # <<>>
    /\ \A k \in 1..Len(tasks[j].hist) : tasks[j].hist[k] # "ok"

\* the jobs of the waves before the wave of job j
EarlierWaves(j) ==
    {k \in Positions : (k - 1) \div max_concurrent_requests < (j - 1) \div max_concurrent_requests}

\* C1: at every instant at most max_concurrent_requests jobs have status 'processing'
C1_PeakConcurrency == Cardinality(Processing) <= max_concurrent_requests

\* C1 witness: a later wave runs with as many jobs 'processing' as the limit allows
C1_Witness ==
    /\ pc = "gather"
    /\ wave_start > 0
    /\ Cardinality(Processing) = max_concurrent_requests

\* C2: a returned summary has completed + failed = total_jobs, and no job is in
\* both completed_jobs and failed_jobs
C2_SummaryPartition ==
    last_result = "summary" =>
        /\ summary.completed + summary.failed = summary.total_jobs
        /\ \A j \in Positions : ~(Count(completed_jobs, j) > 0 /\ Count(failed_jobs, j) > 0)

\* C3: a job of a later wave leaves 'pending' only when every job of the earlier
\* waves is 'completed' or 'failed'
C3_WaveOrder ==
    [][\A j \in Positions :
          (jobs[j].status = "pending" /\ jobs'[j].status # "pending")
              => \A k \in EarlierWaves(j) : jobs[k].status \in Terminal]_vars

\* C3 witness: a job of the second wave has left 'pending' for 'processing' (it
\* carries nothing of an earlier run) and the first wave is terminal
C3_Witness ==
    /\ wave_start > 0
    /\ \E j \in Wave(wave_start) :
          /\ jobs[j].status = "processing"
          /\ jobs[j].error = "none" /\ ~jobs[j].generation_id /\ tasks[j].hist = <<>>
          /\ EarlierWaves(j) # {}
          /\ \A k \in EarlierWaves(j) : jobs[k].status \in Terminal

\* C4: a job's executor makes at most retry_attempts + 1 attempts (iterations of
\* the retry loop, and calls of the engine); with retry_attempts = 0 exactly one
C4_AttemptBound ==
    \A j \in Positions :
        /\ Len(tasks[j].hist) <= retry_attempts + 1
        /\ tasks[j].calls <= retry_attempts + 1
        /\ (retry_attempts = 0 /\ tasks[j].pc = "done") => Len(tasks[j].hist) = 1

\* C4 witness: a finished job that used every attempt, retries included
C4_Witness ==
    \E j \in Positions :
        /\ tasks[j].pc = "done"
        /\ retry_attempts >= 1
        /\ Len(tasks[j].hist) = retry_attempts + 1
        /\ tasks[j].calls = retry_attempts + 1

\* C5: in a run a job's status is set to 'completed' or 'failed' exactly once and
\* the job is appended to completed_jobs or failed_jobs exactly once in total
C5_OneTerminalUpdate ==
    \A j \in Positions :
        /\ tasks[j].updates <= 1
        /\ Count(completed_jobs, j) + Count(failed_jobs, j) <= 1
        /\ tasks[j].pc = "done" =>
              /\ tasks[j].updates = 1
              /\ Count(completed_jobs, j) + Count(failed_jobs, j) = 1

\* C6: once a job is 'completed' or 'failed' its status never changes and no
\* executor is started for it again, whatever operations follow
C6_TerminalIsFinal ==
    [][\A j \in Positions :
          jobs[j].status \in Terminal
              => /\ jobs'[j].status = jobs[j].status
                 /\ (tasks'[j].pc = "created" => tasks[j].pc = "created")]_vars

\* C7: a job all of whose attempts fail ends 'failed' after exactly
\* retry_attempts + 1 attempts, in failed_jobs, with the last attempt's error
C7_ExhaustedRetries ==
    \A j \in Positions :
        (tasks[j].pc = "done" /\ AllFailed(j))
            => /\ jobs[j].status = "failed"
               /\ Len(tasks[j].hist) = retry_attempts + 1
               /\ Count(failed_jobs, j) > 0
               /\ jobs[j].error # "none"
               /\ jobs[j].error = tasks[j].hist[Len(tasks[j].hist)]

\* C8: a job whose first attempt fails and second succeeds ends 'completed' after
\* exactly 2 attempts; after a successful attempt no further attempt is made
C8_RetryThenSuccess ==
    \A j \in Positions :
        /\ (/\ tasks[j].pc = "done"
            /\ retry_attempts >= 1
            /\ Len(tasks[j].hist) >= 2
            /\ tasks[j].hist[1] # "ok"
            /\ tasks[j].hist[2] = "ok")
               => (jobs[j].status = "completed" /\ Len(tasks[j].hist) = 2)
        /\ \A k \in 1..(Len(tasks[j].hist) - 1) : tasks[j].hist[k] # "ok"

\* C9: a job that exhausts its retries does not stop the run: at the summary every
\* job is terminal, and when exactly one job failed every attempt (the others each
\* had a successful attempt) the summary has completed = n - 1 and failed = 1
C9_FailureIsContained ==
    last_result = "summary" =>
        /\ \A j \in 1..total_jobs : jobs[j].status \in Terminal
        /\ (/\ Cardinality({j \in 1..total_jobs : AllFailed(j)}) = 1
            /\ \A j \in 1..total_jobs :
                  ~AllFailed(j) => \E k \in 1..Len(tasks[j].hist) : tasks[j].hist[k] = "ok")
               => (summary.completed = total_jobs - 1 /\ summary.failed = 1)

\* C10: after cancel_batch a job that was 'pending' then never becomes
\* 'processing', and its only terminal status is 'failed' with a cancellation error
C10_CancelStopsPending ==
    [][cancel_requested =>
          \A j \in pending_at_cancel :
              /\ jobs'[j].status \in {"pending", "failed"}
              /\ (jobs'[j].status = "failed" => jobs'[j].error = "cancelled")]_vars

\* C11: after cancel_batch a job that was 'processing' at the cancel begins no
\* further attempt: its retry loop takes no new iteration and calls the engine no more
C11_CancelStopsRetries ==
    [][cancel_requested =>
          \A j \in Positions \ pending_at_cancel :
              jobs[j].status = "processing"
                  => /\ tasks'[j].attempt = tasks[j].attempt
                     /\ tasks'[j].calls = tasks[j].calls]_vars

\* iteration k of job j's retry loop got as far as recording a result (line 299)
Recorded(j, k) ==
    \/ tasks[j].hist[k] = "ok"
    \/ ~use_enhanced_naming /\ tasks[j].hist[k] # "setup"

\* the status that iteration wrote to the job
Outcome(j, k) ==
    IF use_enhanced_naming THEN "completed" ELSE process_single_job(tasks[j].hist[k]).status

\* an invocation of the callback for job j raised
RaisedFor(j) == \E n \in 1..Len(notified) : notified[n].job = j /\ notified[n].raised

\* C12: when the progress callback raises on a job's terminal transition the job
\* keeps the outcome it had, is counted exactly once in completed_jobs and
\* failed_jobs together, and no attempt follows the one whose result was recorded
C12_CallbackFailureSwallowed ==
    \A j \in Positions :
        RaisedFor(j) =>
            /\ Count(completed_jobs, j) + Count(failed_jobs, j) = 1
            /\ \A k \in 1..Len(tasks[j].hist) :
                  Recorded(j, k) => /\ k = Len(tasks[j].hist)
                                    /\ jobs[j].status = Outcome(j, k)

\* C13: a run whose jobs were all processed ends by returning the summary to its
\* caller, also when _save_summary fails, and the registry does not report it failed
C13_SaveFailureDiscarded ==
    (pc = "idle" /\ last_result \notin {"none", "no_jobs"}) =>
        /\ last_result = "summary"
        /\ summary # NoSummary
        /\ summary.total_jobs = total_jobs
        /\ active_batches # NoBatch => active_batches.status # "failed"

\* C14: within a run the completed counts passed to the callback never decrease,
\* the value total_jobs is passed by the last invocation only, and once the run
\* has ended the last count passed equals total_jobs
C14_ProgressMonotone ==
    /\ \A n \in 1..(Len(notified) - 1) : notified[n].completed <= notified[n + 1].completed
    /\ \A n \in 1..Len(notified) :
          /\ notified[n].completed <= total_jobs
          /\ notified[n].completed = total_jobs => n = Len(notified)
    /\ (last_result \in {"summary", "save_error"} /\ current_progress_callback # "none")
          => /\ notified # <<>>
             /\ notified[Len(notified)].completed = total_jobs

\* the invocations of the callback made for job j
InvocationsFor(j) == {n \in 1..Len(notified) : notified[n].job = j}

\* C15: the callback is invoked exactly once per job, when the job's terminal
\* status has been recorded, and the count it is passed is the number of jobs
\* recorded as completed or failed so far, the job just finished included
C15_OneNotificationPerJob ==
    /\ \A j \in Positions :
          /\ Cardinality(InvocationsFor(j)) <= 1
          /\ (tasks[j].pc = "done" /\ current_progress_callback # "none")
                => Cardinality(InvocationsFor(j)) = 1
    /\ \A n \in 1..Len(notified) :
          /\ jobs[notified[n].job].status \in Terminal
          /\ Count(completed_jobs, notified[n].job) + Count(failed_jobs, notified[n].job) > 0
          /\ notified[n].completed =
                Cardinality({notified[m].job : m \in 1..n})

\* C16: when every engine call returns, a run of a non-empty job list leads to
\* every job being 'completed' or 'failed' and to process_batch returning a summary
C16_Termination ==
    /\ (last_result = "running") ~> (\A j \in 1..total_jobs : tasks[j].pc = "done"
                                                           /\ jobs[j].status \in Terminal)
    /\ (last_result = "running") ~> (last_result = "summary")

C18_FailedOnlyAfterAllAttempts ==
    \A j \in Positions :
        (tasks[j].pc = "done" /\ jobs[j].status = "failed")
            => /\ Len(tasks[j].hist) = retry_attempts + 1
               /\ AllFailed(j)

\* C19: a job's status becomes 'processing' only from 'pending', and leaves
\* 'pending' only when its executor starts; while the executor is between attempts
\* (awaiting the engine or sleeping in a backoff) the status is 'processing', and it
\* leaves 'processing' only for a terminal status, as the executor ends
C19_ProcessingUntilTerminal ==
    [][\A j \in Positions :
          /\ (jobs'[j].status = "processing" /\ jobs[j].status # "processing")
                => (jobs[j].status = "pending" /\ tasks[j].pc = "created")
          /\ (jobs[j].status = "pending" /\ jobs'[j].status # "pending")
                => tasks[j].pc = "created"
          /\ tasks'[j].pc \in {"generating", "backoff"} => jobs'[j].status = "processing"
          /\ (jobs[j].status = "processing" /\ jobs'[j].status # "processing")
                => (jobs'[j].status \in Terminal /\ tasks'[j].pc = "done")]_vars

\* the jobs whose executor has started in the current run
Started == {j \in Positions : tasks[j].pc \in {"generating", "backoff", "done"}}

\* C20: whenever another coroutine can run, a job started in the run is 'completed'
\* exactly when it is in completed_jobs and 'failed' exactly when it is in
\* failed_jobs, and it is in each list at most once, in both naming modes
C20_StatusMatchesLedger ==
    \A j \in Started :
        /\ jobs[j].status = "completed" <=> Count(completed_jobs, j) > 0
        /\ jobs[j].status = "failed" <=> Count(failed_jobs, j) > 0
        /\ Count(completed_jobs, j) <= 1
        /\ Count(failed_jobs, j) <= 1

\* C21: a job has result fields (image_urls non-empty, generation_id set) only
\* while its status is 'completed', and an error only while its status is 'failed'
C21_FieldsMatchStatus ==
    \A j \in Positions :
        /\ (jobs[j].image_urls # "empty" \/ jobs[j].generation_id)
              => jobs[j].status = "completed"
        /\ jobs[j].error # "none" => jobs[j].status = "failed"

\* C22: process_batch called with an empty job list ends at once with an error and
\* starts nothing: no job or task changes, no list is reset, no notification is
\* made, the scheduler stays idle and no summary is produced or saved
C22_EmptyRunNeverStarts ==
    [][(jobs = <<>> /\ (ProcessBatch \/ process_batch_async))
          => /\ last_result' = "no_jobs"
             /\ pc' = "idle"
             /\ summary' = NoSummary
             /\ UNCHANGED <<jobs, tasks, completed_jobs, failed_jobs, notified,
                            total_jobs, wave_start, current_progress_callback>>]_vars

\* C22 witness: a process_batch call on a processor without jobs has ended
C22_Witness ==
    /\ last_result = "no_jobs"
    /\ jobs = <<>>
    /\ pc = "idle"
    /\ summary = NoSummary

\* the tasks a step creates
Launched == {j \in Positions : tasks'[j].pc = "created" /\ tasks[j].pc # "created"}

FailedAt(j) == {k \in 1..Len(tasks[j].hist) : tasks[j].hist[k] # "ok"}

SaveStep == last_result = "running" /\ last_result' \in {"summary", "save_error"}

\* C25: in a run the summary is built and handed to _save_summary once: only when
\* every job of the batch is 'completed' or 'failed' and its executor has ended,
\* and not again until another run has begun
C25_SummarySavedOnceAtEnd ==
    [][/\ SaveStep => \A j \in Positions : /\ jobs[j].status \in Terminal
                                           /\ tasks[j].pc = "done"
       /\ last_result # "running" => last_result' \in {last_result, "running", "no_jobs"}
       /\ summary' # summary => (SaveStep \/ summary' = NoSummary)]_vars

\* C25 witness: a run of two waves has ended and returned the summary it saved
C25_Witness ==
    /\ last_result = "summary"
    /\ summary.total_jobs = Len(jobs)
    /\ wave_start > 0
    /\ \A j \in Positions : jobs[j].status \in Terminal

\* C26: in a returned summary failed_jobs lists exactly the jobs whose status is
\* 'failed', each once, with the job's id, prompt and error; failed is the length
\* of that list and completed is the number of jobs whose status is 'completed'
C26_SummaryListsFailedJobs ==
    last_result = "summary" =>
        /\ summary.failed = Len(summary.failed_jobs)
        /\ summary.failed = Cardinality({j \in 1..total_jobs : jobs[j].status = "failed"})
        /\ summary.completed = Cardinality({j \in 1..total_jobs : jobs[j].status = "completed"})
        /\ \A k \in 1..Len(summary.failed_jobs) : jobs[failed_jobs[k]].status = "failed"
        /\ \A j \in 1..total_jobs :
              jobs[j].status = "failed"
                  => /\ jobs[j].error # "none"
                     /\ Cardinality({k \in 1..Len(summary.failed_jobs) :
                                        /\ failed_jobs[k] = j
                                        /\ summary.failed_jobs[k] =
                                              [id |-> jobs[j].id, prompt |-> jobs[j].prompt,
                                               error |-> jobs[j].error]}) = 1

\* C27: whatever load_csv calls have been made, the ids of the jobs in the jobs
\* list are pairwise distinct
C27_JobIdsDistinct ==
    \A j1 \in Positions, j2 \in Positions : j1 # j2 => jobs[j1].id # jobs[j2].id

\* the jobs whose executor is suspended in "await self.engine.generate(request)"
InFlight == {j \in Positions : tasks[j].pc = "generating"}

\* with an engine whose generate never yields no executor is ever suspended in it
SyncEngineNeverSuspends == engine_kind = "sync" => InFlight = {}

\* C28: with the engines of the repository (generate makes its client calls
\* synchronously) a wave of two or more jobs comes to a state in which two jobs
\* have their generation call in flight at the same time
C28_WaveRunsConcurrently ==
    (engine_kind = "sync" /\ pc = "gather" /\ Cardinality(Wave(wave_start)) >= 2)
        ~> (Cardinality(InFlight) >= 2)

\* C29: once the registry status of a batch is 'cancelled' it stays 'cancelled'
C29_CancelledIsFinal ==
    [][active_batches.status = "cancelled" => active_batches'.status = "cancelled"]_vars

\* C30: a batch started with the prompt list P has one job per entry of P, in
\* order, and the k-th job carries the id and the prompt of the k-th entry
C30_CallerIdsKept ==
    [][\A P \in Requests :
          start_batch_processing(P)
              => /\ Len(jobs') = Len(P)
                 /\ \A k \in 1..Len(P) : /\ jobs'[k].id = P[k].id
                                         /\ jobs'[k].prompt = P[k].prompt]_vars

\* C31: a registry entry with status 'completed' has completed + failed equal to
\* its total_jobs
C31_RegistryCountsAddUp ==
    active_batches.status = "completed"
        => active_batches.completed + active_batches.failed = active_batches.total_jobs

\* C32: the 'completed' field of a registry entry never decreases
C32_RegistryCompletedMonotone ==
    [][(active_batches # NoBatch /\ active_batches' # NoBatch)
          => active_batches'.completed >= active_batches.completed]_vars

\* C33: the counts returned by get_status always satisfy
\* pending + processing + completed + failed = total_jobs
C33_StatusCountsAddUp ==
    get_status.pending + get_status.processing + get_status.completed + get_status.failed
        = get_status.total_jobs

\* C34: in a batch started through start_batch_processing at most 10 jobs are
\* 'processing' at any instant and at most 3 generation attempts are made per job
C34_RouteLimits ==
    via = "route" =>
        /\ Cardinality(Processing) <= 10
        /\ \A j \in Positions : tasks[j].calls <= 3 /\ Len(tasks[j].hist) <= 3

\* C34 witness: RoutePrompts prompts (more than 10) were submitted; ten jobs are
\* 'processing', each after two failed attempts and before its third, and the
\* last job is 'pending'
C34_Witness ==
    /\ via = "route"
    /\ active_batches # NoBatch
    /\ active_batches.total_jobs = RoutePrompts
    /\ Len(jobs) = RoutePrompts
    /\ RoutePrompts > 10
    /\ Cardinality(Processing) = 10
    /\ \A j \in Processing : tasks[j].calls = 2 /\ tasks[j].pc = "backoff"
    /\ jobs[RoutePrompts].status = "pending"

====
